---------------------------- MODULE Spec2Model ----------------------------
(***************************************************************************)
(* Model of app.py, the Smart Recipe Generator.  The script is run from    *)
(* top to bottom on every user interaction; at most one button reads True  *)
(* in a run.  One action of the model is one run of the whole script:      *)
(* tab1, tab2, tab3, tab4 and then tab5, in source order.                  *)
(*                                                                         *)
(* Texts are sequences of one-character strings.  A response of the HTTP   *)
(* endpoint is chosen by the environment.                                  *)
(***************************************************************************)
EXTENDS Integers, Sequences, FiniteSets, TLC

\* ------------------------------------------------------------------ bounds
MaxLen == 1          \* longest text held by a response's content field
MaxTextLen == 5      \* longest recipe text given to the export on its own

\* ------------------------------------------------------------- text values
Chars == {"a", "\n"}
ExportChars == {"A", "B", "C", "\n"}
Whitespace == {" ", "\n", "\t", "\r"}

SeqsUpTo(S, n) == UNION {[1..k -> S] : k \in 0..n}

Contents == SeqsUpTo(Chars, MaxLen)
Texts == SeqsUpTo(ExportChars, MaxTextLen)

\* what the user types into a text widget: nothing, blanks, a word, a padded word
Inputs == {<<>>, <<" ">>, <<"a">>, <<" ", "a">>}

Absent == <<"absent">>      \* a session key that was never set
NoFile == 0                 \* file_uploader returned None
Files == {1}

\* str.strip(): drop leading and trailing whitespace
RECURSIVE LStrip(_)
LStrip(s) ==
    IF s = <<>> THEN <<>>
    ELSE IF Head(s) \in Whitespace THEN LStrip(Tail(s)) ELSE s

RECURSIVE RStrip(_)
RStrip(s) ==
    IF s = <<>> THEN <<>>
    ELSE IF s[Len(s)] \in Whitespace THEN RStrip(SubSeq(s, 1, Len(s) - 1)) ELSE s

StripNothing(s) == s

Strip(s) == RStrip(LStrip(s))

\* str.split(sep): the pieces between the occurrences of sep, empty ones kept
RECURSIVE SplitFrom(_, _, _)
SplitFrom(s, sep, cur) ==
    IF s = <<>> THEN <<cur>>
    ELSE IF Head(s) = sep THEN <<cur>> \o SplitFrom(Tail(s), sep, <<>>)
    ELSE SplitFrom(Tail(s), sep, Append(cur, Head(s)))

SplitDropEmpty(s, sep) == SelectSeq(SplitFrom(s, sep, <<>>), LAMBDA l : l # <<>>)

Split(s, sep) == SplitFrom(s, sep, <<>>)

\* ------------------------------------------------------------ HTTP exchange
VISION_MODEL == "VISION_MODEL"
LLAMA_MODEL == "LLAMA_MODEL"

DataUrl(file) == [mime |-> "image/jpeg", base64 |-> file]

VisionPayload(question, image_url) ==
    [model |-> VISION_MODEL,
     content |-> [text |-> question, image_url |-> image_url],
     temperature |-> "0.5", max_tokens |-> 300]

TextPayloadVisionModel(prompt) ==
    [model |-> VISION_MODEL,
     content |-> [text |-> prompt],
     temperature |-> "0.7", max_tokens |-> 1200]

TextPayload(prompt) ==
    [model |-> LLAMA_MODEL,
     content |-> [text |-> prompt],
     temperature |-> "0.7", max_tokens |-> 1200]

Prompt(template, a, b) == [template |-> template, arg1 |-> a, arg2 |-> b]

\* what requests.post(...) followed by response.json() can give
Choice(has_message, has_content, content) ==
    [has_message |-> has_message, has_content |-> has_content, content |-> content]

Raised == [status |-> "raise", has_choices |-> FALSE, choices |-> <<>>]
NoChoicesKey == [status |-> "ok", has_choices |-> FALSE, choices |-> <<>>]
EmptyChoices == [status |-> "ok", has_choices |-> TRUE, choices |-> <<>>]
NoMessageKey ==
    [status |-> "ok", has_choices |-> TRUE, choices |-> <<Choice(FALSE, FALSE, <<>>)>>]
NoContentKey ==
    [status |-> "ok", has_choices |-> TRUE, choices |-> <<Choice(TRUE, FALSE, <<>>)>>]
WithContent(c) ==
    [status |-> "ok", has_choices |-> TRUE, choices |-> <<Choice(TRUE, TRUE, c)>>]

Responses ==
    {Raised, NoChoicesKey, EmptyChoices, NoMessageKey, NoContentKey}
        \cup {WithContent(c) : c \in Contents}

\* result.get("choices") and len(result["choices"]) > 0
ChoicesTruthy(result) == result.has_choices /\ Len(result.choices) > 0

\* result["choices"][0]["message"]["content"] evaluates without KeyError/IndexError
Indexable(result) ==
    /\ result.has_choices
    /\ Len(result.choices) > 0
    /\ result.choices[1].has_message
    /\ result.choices[1].has_content

FirstContentStripped(result) == Strip(result.choices[1].content)

FirstContent(result) == result.choices[1].content

\* ------------------------------------------------------- one run's context
\* The session state the script reads and writes, and what the run has sent,
\* received and put on the page so far.
NewRun(last_recipe_0, detected_0) ==
    [last_recipe |-> last_recipe_0,
     detected_ingredients |-> detected_0,
     requests |-> <<>>,
     responses |-> <<>>,
     messages |-> <<>>,
     displayed |-> <<>>,
     crashed |-> FALSE]

\* an exception no handler catches ends the run of the script
Uncaught(ctx) == [ctx EXCEPT !.crashed = TRUE]

\* requests.post(url, headers, data=json.dumps(payload)); response.json()
Post(ctx, payload, response) ==
    [ctx EXCEPT !.requests = Append(@, payload), !.responses = Append(@, response)]

Element(ctx, kind, text) ==
    [ctx EXCEPT !.messages = Append(@, [kind |-> kind, text |-> text])]

\* st.write(text) / st.markdown(text) of a generated text
Display(ctx, text) == [ctx EXCEPT !.displayed = Append(@, text)]

\* st.session_state["last_recipe"] = recipe_text
StoreRecipeOnlyFirst(ctx, recipe_text) ==
    IF ctx.last_recipe = <<>> THEN [ctx EXCEPT !.last_recipe = recipe_text] ELSE ctx

StoreRecipe(ctx, recipe_text) == [ctx EXCEPT !.last_recipe = recipe_text]

\* st.session_state["detected_ingredients"] = ingredients
CacheIngredients(ctx, ingredients) == [ctx EXCEPT !.detected_ingredients = ingredients]

\* except Exception as e: st.error(...) around the recipe request
RecipeErrorAndOuter(ctx, text) ==
    Element(Element(ctx, "error", text), "error", "Error analyzing image")

RecipeErrorUncaught(ctx, text) == Uncaught(ctx)

RecipeErrorClearsRecipe(ctx, text) ==
    Element([ctx EXCEPT !.last_recipe = <<>>], "error", text)

RecipeError(ctx, text) == Element(ctx, "error", text)

\* The recipe request and the handling of its response; the four tabs carry
\* the same statements with their own prompt, heading and error text.
RecipeStep(ctx, prompt, response, heading, error_text) ==
    LET sent == Post(ctx, TextPayload(prompt), response)
    IN  IF response.status = "raise" \/ ~Indexable(response)
        THEN RecipeError(sent, error_text)
        ELSE LET recipe_text == FirstContent(response)
             IN  Display(Element(StoreRecipe(sent, recipe_text), "subheader", heading),
                         recipe_text)

\* ------------------------------------------------------------------- tab 1
Tab1(ctx, uploaded_file, pressed, r1, r2) ==
    IF ctx.crashed \/ uploaded_file = NoFile \/ ~pressed THEN ctx
    ELSE
    LET image_url == DataUrl(uploaded_file)
        question == Prompt("What dish or food is shown in this image?", <<>>, <<>>)
        sent == Post(ctx, VisionPayload(question, image_url), r1)
    IN  IF r1.status = "raise" THEN Element(sent, "error", "Error analyzing image")
        ELSE IF ChoicesTruthy(r1)
        THEN IF ~Indexable(r1) THEN Element(sent, "error", "Error analyzing image")
             ELSE LET dish_name == FirstContent(r1)
                      shown == Display(Element(sent, "success", "Detected Dish:"), dish_name)
                  IN  RecipeStep(shown, Prompt("recipe for detected dish", dish_name, <<>>), r2,
                                 "Generated Recipe Based on Dish Image:",
                                 "Error generating recipe")
        ELSE Element(sent, "warning", "Could not identify dish from image.")

\* ------------------------------------------------------------------- tab 2
RECURSIVE Join(_, _)
Join(list, sep) ==
    IF list = <<>> THEN <<>>
    ELSE IF Len(list) = 1 THEN list
    ELSE <<Head(list), sep>> \o Join(Tail(list), sep)

Tab2(ctx, uploaded_file, pressed, r1, r2) ==
    IF ctx.crashed \/ uploaded_file = NoFile \/ ~pressed THEN ctx
    ELSE
    LET image_url == DataUrl(uploaded_file)
        question == Prompt("List all visible ingredients in this image.", <<>>, <<>>)
        sent == Post(ctx, VisionPayload(question, image_url), r1)
    IN  IF r1.status = "raise" THEN Element(sent, "error", "Error analyzing image")
        ELSE IF ChoicesTruthy(r1)
        THEN IF ~Indexable(r1) THEN Element(sent, "error", "Error analyzing image")
             ELSE LET ingredients == FirstContent(r1)
                      cached == CacheIngredients(sent, ingredients)
                      shown == Display(Element(cached, "success", "Detected Ingredients:"),
                                       ingredients)
                      dietary_preferences ==
                          <<"Vegetarian", "Vegan", "Gluten-Free", "Low-Carb">>
                      preferences_str == Join(dietary_preferences, ", ")
                  IN  RecipeStep(shown,
                                 Prompt("3 recipes from detected ingredients",
                                        ingredients, preferences_str),
                                 r2,
                                 "Recipes You Can Make with These Ingredients:",
                                 "Error generating recipes")
        ELSE Element(sent, "warning", "No ingredients found in the image.")

\* ------------------------------------------------------------------- tab 3
\* value=st.session_state.get("detected_ingredients", "")
TextAreaDefaultEmpty(ctx) == <<>>

TextAreaDefault(ctx) ==
    IF ctx.detected_ingredients = Absent THEN <<>> ELSE ctx.detected_ingredients

Tab3(ctx, ingredients, dietary_preferences, pressed, r) ==
    LET preferences_str ==
            IF dietary_preferences # <<>> THEN Join(dietary_preferences, ", ")
            ELSE <<"No specific dietary preferences">>
    IN  IF ctx.crashed \/ ~pressed THEN ctx
        ELSE IF Strip(ingredients) = <<>>
        THEN Element(ctx, "error", "Please enter at least one ingredient.")
        ELSE RecipeStep(ctx, Prompt("3 recipes from ingredients", ingredients, preferences_str),
                        r, "Here are your 3 recipe suggestions:", "An error occurred")

\* ------------------------------------------------------------------- tab 4
Tab4(ctx, dish_name, ingredients_override, pressed, r) ==
    IF ctx.crashed \/ ~pressed THEN ctx
    ELSE IF Strip(dish_name) = <<>>
    THEN Element(ctx, "error", "Please enter a dish name.")
    ELSE RecipeStep(ctx,
                    Prompt("recipe for dish name", dish_name,
                           IF ingredients_override # <<>> THEN ingredients_override
                           ELSE <<"Assume full access">>),
                    r, "Recipes related to dish_name:", "An error occurred")

\* ------------------------------------------------------------------- tab 5
\* if st.session_state["last_recipe"]:
TruthyAlways(text) == TRUE

Truthy(text) == text # <<>>

NotReached ==
    [written |-> FALSE, preview |-> <<>>, header |-> "", rows |-> <<>>,
     file_name |-> "", download |-> FALSE, info |-> FALSE]

NoExport == [NotReached EXCEPT !.info = TRUE]

Tab5(ctx) ==
    IF ctx.crashed THEN NotReached
    ELSE IF Truthy(ctx.last_recipe)
    THEN [written |-> TRUE,
          preview |-> ctx.last_recipe,
          header |-> "Generated Recipes",
          rows |-> Split(ctx.last_recipe, "\n"),
          file_name |-> "recipes_export.pdf",
          download |-> TRUE,
          info |-> FALSE]
    ELSE NoExport

\* ------------------------------------------------------------ state machine
VARIABLES
    last_recipe,            \* st.session_state["last_recipe"]
    detected_ingredients,   \* st.session_state["detected_ingredients"], or Absent
    dish_upload,            \* file held by the uploader with key "dish_upload"
    ingredient_upload,      \* file held by the uploader with key "ingredient_upload"
    run,                    \* what the latest run of the script did
    last_generated          \* history: content of the latest well-formed recipe response

vars == <<last_recipe, detected_ingredients, dish_upload, ingredient_upload, run,
          last_generated>>

NoButton == "none"
DetectDish == "Detect Dish & Generate Recipe"
DetectIngredients == "Detect Ingredients & Generate Recipes"
GenerateRecipes == "Generate Recipes"
GetRecipe == "Get Recipe"

ImageButtons == {DetectDish, DetectIngredients}
TextButtons == {GenerateRecipes, GetRecipe}
GenerationButtons == ImageButtons \cup TextButtons

HasImagePart(request) == "image_url" \in DOMAIN request.content

\* the text a run's recipe request produced, Absent when it produced none
Produced(requests, responses) ==
    LET n == Len(requests)
    IN  IF /\ n > 0
           /\ ~HasImagePart(requests[n])
           /\ responses[n].status = "ok"
           /\ Indexable(responses[n])
        THEN responses[n].choices[1].content
        ELSE Absent

\* what a finished run leaves on the page and on disk
RunRecord(button, input, value, ctx) ==
    [button |-> button,
     input |-> input,
     text_area_value |-> value,
     requests |-> ctx.requests,
     responses |-> ctx.responses,
     messages |-> ctx.messages,
     displayed |-> ctx.displayed,
     crashed |-> ctx.crashed,
     export |-> Tab5(ctx)]

\* One run of the script, lines 23 to 364, with the given widget values.
Rerun(button, dish_file, ingredient_file, text, choice, r1, r2) ==
    \E after1 \in {Tab1(NewRun(last_recipe, detected_ingredients), dish_file,
                        button = DetectDish, r1, r2)} :
    \E after2 \in {Tab2(after1, ingredient_file, button = DetectIngredients, r1, r2)} :
    \E value \in {TextAreaDefault(after2)} :
    \E ingredients \in {IF button = GenerateRecipes THEN text ELSE value} :
    \E after3 \in {Tab3(after2, ingredients, choice, button = GenerateRecipes, r1)} :
    \E after4 \in {Tab4(after3, text, choice, button = GetRecipe, r1)} :
    \E produced \in {Produced(after4.requests, after4.responses)} :
        /\ dish_upload' = dish_file
        /\ ingredient_upload' = ingredient_file
        /\ last_recipe' = after4.last_recipe
        /\ detected_ingredients' = after4.detected_ingredients
        /\ run' = RunRecord(button,
                            IF button = GenerateRecipes THEN ingredients
                            ELSE IF button = GetRecipe THEN text ELSE <<>>,
                            value, after4)
        /\ last_generated' = IF produced # Absent THEN produced ELSE last_generated

\* the first run of a session: no widget holds anything, no button is pressed
Init ==
    /\ last_recipe = <<>>
    /\ detected_ingredients = Absent
    /\ dish_upload = NoFile
    /\ ingredient_upload = NoFile
    /\ run = RunRecord(NoButton, <<>>, <<>>, NewRun(<<>>, Absent))
    /\ last_generated = Absent

\* the user puts a file into, or clears, the dish uploader
UploadDish ==
    \E f \in Files \cup {NoFile} :
        /\ f # dish_upload
        /\ Rerun(NoButton, f, ingredient_upload, <<>>, <<>>, Raised, Raised)

UploadIngredients ==
    \E f \in Files \cup {NoFile} :
        /\ f # ingredient_upload
        /\ Rerun(NoButton, dish_upload, f, <<>>, <<>>, Raised, Raised)

PressDetectDish ==
    /\ dish_upload # NoFile
    /\ \E r1 \in Responses :
           \E r2 \in (IF Indexable(r1) THEN Responses ELSE {Raised}) :
               Rerun(DetectDish, dish_upload, ingredient_upload, <<>>, <<>>, r1, r2)

PressDetectIngredients ==
    /\ ingredient_upload # NoFile
    /\ \E r1 \in Responses :
           \E r2 \in (IF Indexable(r1) THEN Responses ELSE {Raised}) :
               Rerun(DetectIngredients, dish_upload, ingredient_upload, <<>>, <<>>, r1, r2)

\* the multiselect is left empty or holds two of its options
Preferences(ingredients) ==
    IF ingredients \in {<<>>, <<"a">>} THEN <<>> ELSE <<"Vegetarian", "Vegan">>

PressGenerateRecipes ==
    \E ingredients \in Inputs \cup {TextAreaDefault(NewRun(last_recipe, detected_ingredients))} :
        \E r \in (IF Strip(ingredients) = <<>> THEN {Raised} ELSE Responses) :
            Rerun(GenerateRecipes, dish_upload, ingredient_upload, ingredients,
                  Preferences(ingredients), r, Raised)

\* the optional second field is left empty or filled in
Override(dish_name) == IF dish_name \in {<<>>, <<"a">>} THEN <<>> ELSE <<"a">>

PressGetRecipe ==
    \E dish_name \in Inputs :
        \E r \in (IF Strip(dish_name) = <<>> THEN {Raised} ELSE Responses) :
            Rerun(GetRecipe, dish_upload, ingredient_upload, dish_name,
                  Override(dish_name), r, Raised)

Next ==
    \/ UploadDish
    \/ UploadIngredients
    \/ PressDetectDish
    \/ PressDetectIngredients
    \/ PressGenerateRecipes
    \/ PressGetRecipe

Spec == Init /\ [][Next]_vars

\* ---------------------------------------------------- the export on its own
\* A session in which Get Recipe has just returned a text of Texts; the script
\* is then run again, and tab5 with it, by the uploaders.
InitExport ==
    \E text \in Texts :
        LET ctx == Tab4(NewRun(<<>>, Absent), <<"a">>, <<>>, TRUE, WithContent(text))
        IN  /\ last_recipe = ctx.last_recipe
            /\ detected_ingredients = ctx.detected_ingredients
            /\ dish_upload = NoFile
            /\ ingredient_upload = NoFile
            /\ run = RunRecord(GetRecipe, <<"a">>, <<>>, ctx)
            /\ last_generated = text

NextExport ==
    \/ UploadDish
    \/ UploadIngredients

SpecExport == InitExport /\ [][NextExport]_vars

\* ------------------------------------------------------------------ claims
IsBlank(text) == \A i \in 1..Len(text) : text[i] \in Whitespace

\* the response carries choices[0].message.content
WellFormed(response) ==
    /\ response.status = "ok"
    /\ response.has_choices
    /\ response.choices # <<>>
    /\ response.choices[1].has_message
    /\ response.choices[1].has_content

\* the response was decoded and its choices list is missing or empty
NoChoices(response) ==
    /\ response.status = "ok"
    /\ ~response.has_choices \/ response.choices = <<>>

Reports(r) == SelectSeq(r.messages, LAMBDA m : m.kind \in {"error", "warning"})

Rejections == {"Please enter at least one ingredient.", "Please enter a dish name."}

NotFoundTexts == {"Could not identify dish from image.", "No ingredients found in the image."}

\* a generation button was pressed and the action did not reach a recipe text
FailedPress(r) ==
    /\ r.button \in GenerationButtons
    /\ Produced(r.requests, r.responses) = Absent

\* C1: pressing Generate Recipes or Get Recipe with an empty or all-whitespace
\* text shows the rejection message, sends no HTTP request and leaves
\* last_recipe as it was, whatever the session holds.
C1_BlankInputRejected ==
    [][(run'.button \in TextButtons /\ IsBlank(run'.input)) =>
          /\ run'.requests = <<>>
          /\ Len(run'.messages) = 1
          /\ run'.messages[1].kind = "error"
          /\ run'.messages[1].text \in Rejections
          /\ last_recipe' = last_recipe]_vars

C1_Witness ==
    /\ run.button = GenerateRecipes
    /\ run.input = <<" ">>
    /\ run.requests = <<>>
    /\ Len(run.messages) = 1
    /\ run.messages[1].text = "Please enter at least one ingredient."
    /\ last_recipe = <<"a">>

\* C2 as stated: after a generation action has been triggered (its request
\* sent), the text the Export tab serialises is the text that action produced.
C2_ExportsLastTriggered ==
    (run.button \in GenerationButtons /\ run.requests # <<>> /\ run.export.written) =>
        run.export.preview = Produced(run.requests, run.responses)

\* C2 amended: the text the Export tab serialises is the content of the most
\* recent recipe response that carried one; before any such response there is
\* nothing to export, and each such response overwrites what was held.
C2_ExportsLastGenerated ==
    /\ last_generated = Absent => last_recipe = <<>> /\ ~run.export.written
    /\ last_generated # Absent => last_recipe = last_generated
    /\ run.export.written => run.export.preview = last_generated
    /\ Produced(run.requests, run.responses) # Absent =>
           last_generated = Produced(run.requests, run.responses)

C2_Witness ==
    /\ run.button = GetRecipe
    /\ run.requests # <<>>
    /\ Produced(run.requests, run.responses) = Absent
    /\ last_generated = <<"a">>
    /\ run.export.written
    /\ run.export.preview = <<"a">>

C4_DisplaysContent ==
    \A i \in 1..Len(run.responses) :
        WellFormed(run.responses[i]) =>
            /\ Len(run.displayed) >= i
            /\ run.displayed[i] = run.responses[i].choices[1].content
            /\ ~HasImagePart(run.requests[i]) =>
                   last_recipe = run.responses[i].choices[1].content

C4_Witness ==
    /\ run.button = DetectDish
    /\ Len(run.responses) = 2
    /\ run.responses[1] = WithContent(<<"a">>)
    /\ run.responses[2] = WithContent(<<"\n">>)
    /\ run.displayed = <<<<"a">>, <<"\n">>>>
    /\ last_recipe = <<"\n">>

\* C5: one press sends at most one request from a text action and at most two
\* from an image action (vision, then text); a failed or malformed response is
\* the last of its press and is reported by exactly one message.
C5_NoRetry ==
    /\ run.button = NoButton => run.requests = <<>>
    /\ run.button \in TextButtons => Len(run.requests) <= 1
    /\ run.button \in ImageButtons =>
           /\ Len(run.requests) \in {1, 2}
           /\ HasImagePart(run.requests[1])
           /\ Len(run.requests) = 2 => ~HasImagePart(run.requests[2])
    /\ \A i \in 1..Len(run.responses) :
           ~WellFormed(run.responses[i]) =>
               /\ i = Len(run.requests)
               /\ Len(Reports(run)) = 1

C5_Witness ==
    /\ run.button = DetectIngredients
    /\ Len(run.requests) = 2
    /\ run.responses[2] = Raised
    /\ Reports(run) = <<[kind |-> "error", text |-> "Error generating recipes"]>>

\* C6: a request carries an image part exactly when its model is the vision
\* model, and a plain prompt exactly when its model is the text model.
C6_ModelMatchesContent ==
    \A i \in 1..Len(run.requests) :
        /\ HasImagePart(run.requests[i]) <=> run.requests[i].model = VISION_MODEL
        /\ ~HasImagePart(run.requests[i]) <=> run.requests[i].model = LLAMA_MODEL

C6_Witness ==
    /\ Len(run.requests) = 2
    /\ run.requests[1].model = VISION_MODEL
    /\ HasImagePart(run.requests[1])
    /\ run.requests[2].model = LLAMA_MODEL
    /\ ~HasImagePart(run.requests[2])

\* line breaks of a text, and rows put back together with line breaks
LineBreaks(text) == Cardinality({i \in 1..Len(text) : text[i] = "\n"})

RECURSIVE JoinLines(_)
JoinLines(rows) ==
    IF Len(rows) = 1 THEN rows[1]
    ELSE rows[1] \o <<"\n">> \o JoinLines(Tail(rows))

\* C7: the export emits one row per line of the last recipe: as many rows as
\* there are line breaks plus one, none holding a line break, and the rows put
\* back together with line breaks are the text (order kept, nothing merged,
\* dropped or wrapped, empty lines included).
C7_OneRowPerLine ==
    run.export.written =>
        /\ Len(run.export.rows) = LineBreaks(last_recipe) + 1
        /\ \A k \in 1..Len(run.export.rows) : LineBreaks(run.export.rows[k]) = 0
        /\ JoinLines(run.export.rows) = last_recipe
        /\ run.export.header = "Generated Recipes"

C7_Witness ==
    /\ last_recipe = <<"A", "\n", "B", "\n", "C">>
    /\ run.button = NoButton
    /\ run.export.written
    /\ run.export.rows = <<<<"A">>, <<"B">>, <<"C">>>>

\* the run was an ingredient detection whose vision response carried a text
DetectedNow(r) ==
    /\ r.button = DetectIngredients
    /\ r.responses # <<>>
    /\ WellFormed(r.responses[1])

\* C8: a vision response with content to the ingredients-image action caches
\* that text in the session, whether or not the recipe request that follows
\* succeeds; nothing else changes the cached text; and in every run the cached
\* text is the value the ingredients text area is given as its default.
C8_IngredientsCached ==
    [][/\ DetectedNow(run') =>
              detected_ingredients' = run'.responses[1].choices[1].content
       /\ ~DetectedNow(run') => detected_ingredients' = detected_ingredients
       /\ detected_ingredients' # Absent => run'.text_area_value = detected_ingredients'
       /\ detected_ingredients' = Absent => run'.text_area_value = <<>>]_vars

C8_Witness ==
    /\ detected_ingredients = <<"a">>
    /\ run.button = GenerateRecipes
    /\ run.text_area_value = <<"a">>
    /\ run.input = <<"a">>
    /\ run.requests # <<>>
    /\ run.requests[1].content.text.arg1 = <<"a">>

\* C9: a generation action that fails (rejected input, exception, no choices,
\* no message or content) leaves last_recipe as it was before the press, and
\* the Export tab of that run offers exactly what was held before.
C9_FailureKeepsRecipe ==
    [][FailedPress(run') =>
          /\ last_recipe' = last_recipe
          /\ run'.export.written <=> last_recipe # <<>>
          /\ run'.export.written => run'.export.preview = last_recipe]_vars

C9_Witness ==
    /\ run.button = DetectDish
    /\ Len(run.responses) = 2
    /\ run.responses[2] = NoContentKey
    /\ last_recipe = <<"a">>
    /\ run.export.written
    /\ run.export.preview = <<"a">>

\* C10: the Export tab writes the PDF and offers the download exactly when
\* last_recipe is non-empty; otherwise it writes nothing and shows only the
\* notice.  An export therefore needs a generation that returned non-empty
\* text, and a generation that returns empty text leaves none.
C10_ExportIffRecipe ==
    /\ run.export.written <=> last_recipe # <<>>
    /\ run.export.download <=> run.export.written
    /\ run.export.info <=> ~run.export.written
    /\ run.export.written =>
           /\ run.export.file_name = "recipes_export.pdf"
           /\ last_generated \notin {Absent, <<>>}
    /\ ~run.export.written => run.export.rows = <<>>

C10_Witness ==
    /\ run.button = GenerateRecipes
    /\ Produced(run.requests, run.responses) = <<>>
    /\ last_recipe = <<>>
    /\ ~run.export.written
    /\ ~run.export.download
    /\ run.export.info

=============================================================================
